---------------------------- MODULE Spec2Model ----------------------------
(***************************************************************************)
(* A model of package hub: the copy-on-write subscriptions registry, the   *)
(* listener inspector newSink, and the hub dispatcher with its lock-free   *)
(* Publish, its mutex-serialised Subscribe and its once-guarded Cancel.    *)
(***************************************************************************)
EXTENDS Integers, Sequences, FiniteSets, TLC

(* ------------------------------ bounds --------------------------------- *)
MaxSinks == 2
NumPublishers == 2
PerPublisher == 2
MaxArity == 2

(* make(chan TestEvent, 1) *)
ChanCap == 1

(* the goroutines that use the hub, and those of the publisher scenario *)
Workers == {1, 2}
Publishers == 1..NumPublishers

(* ------------------------------ types ---------------------------------- *)
ConcreteTypes == {"TestEvent", "string", "*http.Request", "*bytes.Buffer"}

(* pointers to struct types that have more than one method *)
ManyMethodPointers == {"*http.Request", "*bytes.Buffer"}
InterfaceTypes == {"io.Reader"}
NilType == "nil"

IsInterface(ty) == ty \in InterfaceTypes

Events == {"firstEvent", "secondEvent", "a random event", "nil"}

TypeOf(e) ==
    CASE e \in {"firstEvent", "secondEvent"} -> "TestEvent"
      [] e = "a random event" -> "string"
      [] OTHER -> NilType

(* ------------------------- listener inspector -------------------------- *)
NoShape ==
    [kind |-> "nil", numIn |-> 0, numOut |-> 0, in0 |-> NilType,
     chanDir |-> "both", elem |-> NilType,
     numMethod |-> 0, mNumIn |-> 0, mNumOut |-> 0, mIn1 |-> NilType]

FuncShape(nin, nout, ty) ==
    [NoShape EXCEPT !.kind = "func", !.numIn = nin, !.numOut = nout, !.in0 = ty]

ChanShape(dir, ty) ==
    [NoShape EXCEPT !.kind = "chan", !.chanDir = dir, !.elem = ty]

OtherShape(nm, nin, nout, ty) ==
    [NoShape EXCEPT !.kind = "other", !.numMethod = nm, !.mNumIn = nin,
                    !.mNumOut = nout, !.mIn1 = ty]

Listeners == {"l1", "func(string)", "nil"}

(* the channel listener of the tests: l3 = make(chan TestEvent, 1) *)
ChanListeners == {"l3"}

(* a listener of the kind the concurrency test uses: it counts its calls *)
Counter == "counter"

(* a function listener that panics when it is called *)
Panicker == "panicker"

(* a function listener that calls Subscribe or a Cancel of the hub that is *)
(* calling it                                                              *)
Reentrant == "reentrant"

ShapeOf(l) ==
    CASE l = "l1" -> OtherShape(1, 2, 0, "TestEvent")
      [] l = Reentrant -> FuncShape(1, 0, "TestEvent")
      [] l = Panicker -> FuncShape(1, 0, "TestEvent")
      [] l = "l3" -> ChanShape("both", "TestEvent")
      [] l = "func(string)" -> FuncShape(1, 0, "string")
      [] l = Counter -> FuncShape(1, 0, "TestEvent")
      [] OTHER -> NoShape

Rejected(err) == [err |-> err, eventType |-> NilType, kind |-> "none"]

Accepted(ty, kind) ==
    IF IsInterface(ty) THEN Rejected("ErrInvalidEventType")
    ELSE [err |-> "nil", eventType |-> ty, kind |-> kind]

(* a newSink that refuses a function whose input has several methods *)
newSinkByInput(t) ==
    CASE t.kind = "nil" -> Rejected("ErrInvalidListener")
      [] t.kind = "func" ->
            IF t.numIn # 1 \/ t.numOut # 0
            THEN Rejected("ErrInvalidFunction")
            ELSE IF t.in0 \in ManyMethodPointers
            THEN Rejected("ErrInvalidListener")
            ELSE Accepted(t.in0, "sinkFunc")
      [] t.kind = "chan" ->
            IF t.chanDir = "recv"
            THEN Rejected("ErrInvalidChannel")
            ELSE Accepted(t.elem, "sinkChan")
      [] t.kind = "other" /\ t.numMethod = 1 ->
            IF t.mNumIn # 2 \/ t.mNumOut # 0
            THEN Rejected("ErrInvalidFunction")
            ELSE Accepted(t.mIn1, "sinkMethod")
      [] OTHER -> Rejected("ErrInvalidListener")

(* a newSink that forgets that a method's first input is its receiver *)
newSinkNoReceiver(t) ==
    CASE t.kind = "nil" -> Rejected("ErrInvalidListener")
      [] t.kind = "func" ->
            IF t.numIn # 1 \/ t.numOut # 0
            THEN Rejected("ErrInvalidFunction")
            ELSE Accepted(t.in0, "sinkFunc")
      [] t.kind = "chan" ->
            IF t.chanDir = "recv"
            THEN Rejected("ErrInvalidChannel")
            ELSE Accepted(t.elem, "sinkChan")
      [] t.kind = "other" /\ t.numMethod = 1 ->
            IF t.mNumIn # 1 \/ t.mNumOut # 0
            THEN Rejected("ErrInvalidFunction")
            ELSE Accepted(t.mIn1, "sinkMethod")
      [] OTHER -> Rejected("ErrInvalidListener")

newSink(t) ==
    CASE t.kind = "nil" -> Rejected("ErrInvalidListener")
      [] t.kind = "func" ->
            IF t.numIn # 1 \/ t.numOut # 0
            THEN Rejected("ErrInvalidFunction")
            ELSE Accepted(t.in0, "sinkFunc")
      [] t.kind = "chan" ->
            IF t.chanDir = "recv"
            THEN Rejected("ErrInvalidChannel")
            ELSE Accepted(t.elem, "sinkChan")
      [] t.kind = "other" /\ t.numMethod = 1 ->
            IF t.mNumIn # 2 \/ t.mNumOut # 0
            THEN Rejected("ErrInvalidFunction")
            ELSE Accepted(t.mIn1, "sinkMethod")
      [] OTHER -> Rejected("ErrInvalidListener")

(* --------------------------- subscriptions ----------------------------- *)
(* A subscriptions value is a function from a set of event types to        *)
(* sequences of sinks; the nil map is the function with the empty domain.  *)
NilMap == <<>>

Lookup(s, eventType) == IF eventType \in DOMAIN s THEN s[eventType] ELSE <<>>

SinksOfList(list) == {list[i] : i \in DOMAIN list}

(* an add that puts the new sink first *)
addFirst(s, eventType, sk) ==
    [k \in (DOMAIN s) \cup {eventType} |->
        IF k = eventType THEN <<sk>> \o Lookup(s, k) ELSE s[k]]

add(s, eventType, sk) ==
    [k \in (DOMAIN s) \cup {eventType} |->
        IF k = eventType THEN Append(Lookup(s, k), sk) ELSE s[k]]

Updated(existing, oldSink) == SelectSeq(existing, LAMBDA c : c # oldSink)

(* a remove that gives up when nothing would be left *)
removeKeepsLast(s, eventType, oldSink) ==
    IF eventType \notin DOMAIN s \/ Updated(Lookup(s, eventType), oldSink) = <<>>
    THEN [same |-> TRUE, val |-> s]
    ELSE [same |-> FALSE,
          val |-> [k \in DOMAIN s |->
                     IF k # eventType THEN s[k] ELSE Updated(s[k], oldSink)]]

(* a remove without the check that something was removed *)
removeAlwaysClone(s, eventType, oldSink) ==
    IF eventType \notin DOMAIN s
    THEN [same |-> TRUE, val |-> s]
    ELSE [same |-> FALSE,
          val |-> [k \in DOMAIN s |->
                     IF k # eventType THEN s[k] ELSE Updated(s[k], oldSink)]]

remove(s, eventType, oldSink) ==
    IF eventType \notin DOMAIN s
    THEN [same |-> TRUE, val |-> s]
    ELSE IF Len(s[eventType]) = Len(Updated(s[eventType], oldSink))
         THEN [same |-> TRUE, val |-> s]
         ELSE [same |-> FALSE,
               val |-> [k \in DOMAIN s |->
                          IF k # eventType THEN s[k]
                          ELSE Updated(s[k], oldSink)]]

(* ------------------------------- state --------------------------------- *)
VARIABLES
    subscribeLock,   \* hub.subscribeLock: 0, or the thread holding it
    subscriptions,   \* hub.subscriptions: the instance in the cell, 0 = never stored
    heap,            \* the subscriptions instances that are still referenced
    sinks,           \* the sink objects created so far, by identity
    cancels,         \* per sink: the Cancel closure (its once, its eventType)
    calls,           \* how often the counting listener has been invoked
    chans,           \* per channel listener: the buffered values
    pc, arg, err, sk, loaded, idx, delivered, atStart,   \* per thread
    published,       \* per thread: Publish calls made (publisher scenario)
    candidate, outcome,  \* the inspector on its own
    regMaps,         \* the registry on its own: the map objects made so far
    regLists,        \* ... and the sink lists they refer to
    regOp            \* ... and the last call of add or remove

threadVars == <<pc, arg, err, sk, loaded, idx, delivered, atStart>>
regVars == <<regMaps, regLists, regOp>>
auxVars == <<published, candidate, outcome, regVars>>
vars == <<subscribeLock, subscriptions, heap, sinks, cancels, calls, chans,
          pc, arg, err, sk, loaded, idx, delivered, atStart,
          published, candidate, outcome, regMaps, regLists, regOp>>

Threads == DOMAIN pc

Snap(id) == IF id = 0 THEN NilMap ELSE heap[id]

SinkIds == 1..Len(sinks)

Handles == {s \in SinkIds : cancels[s].once # "none"}

InitThreads(T) ==
    /\ pc = [t \in T |-> "idle"]
    /\ arg = [t \in T |-> "nil"]
    /\ err = [t \in T |-> "nil"]
    /\ sk = [t \in T |-> 0]
    /\ loaded = [t \in T |-> 0]
    /\ idx = [t \in T |-> 0]
    /\ delivered = [t \in T |-> <<>>]
    /\ atStart = [t \in T |-> <<>>]
    /\ published = [t \in T |-> 0]

NoCall == [op |-> "none", recv |-> 0, eventType |-> NilType, sink |-> 0, result |-> 0]

(* no registry is under test on its own *)
NoRegistry ==
    /\ regMaps = <<>>
    /\ regLists = <<>>
    /\ regOp = NoCall

(* New(): a hub whose cell has never been stored to *)
InitHub ==
    /\ subscribeLock = 0
    /\ subscriptions = 0
    /\ heap = <<>>
    /\ sinks = <<>>
    /\ cancels = <<>>
    /\ calls = 0
    /\ chans = [l \in ChanListeners |-> <<>>]

Init ==
    /\ InitHub
    /\ NoRegistry
    /\ InitThreads(Workers)
    /\ candidate = NoShape
    /\ outcome = Rejected("none")

(* ------------------------------- hub ----------------------------------- *)
(* Instances live while the cell or a call's local refers to them; the     *)
(* runtime reclaims the others. An instance is named by who refers to it:  *)
(* 1 is the instance in the cell, 1 + t the one whose first holder is      *)
(* thread t; 0 is the nil map of a cell never stored to.                   *)
Refs(cell, held) == ({cell} \cup {held[u] : u \in DOMAIN held}) \ {0}

Holders(held, id) == {u \in DOMAIN held : held[u] = id}

Name(cell, held, id) ==
    IF id = 0 THEN 0
    ELSE IF id = cell THEN 1
    ELSE 1 + (CHOOSE u \in Holders(held, id) : \A w \in Holders(held, id) : u <= w)

Commit(cell, held, h) ==
    /\ subscriptions' = Name(cell, held, cell)
    /\ loaded' = [u \in DOMAIN held |-> Name(cell, held, held[u])]
    /\ heap' = [j \in {Name(cell, held, i) : i \in Refs(cell, held)} |->
                  h[CHOOSE i \in Refs(cell, held) : Name(cell, held, i) = j]]

NewId == Cardinality(Threads) + 2

(* a Lock that also waits until no Publish is in flight *)
LockAfterPublish(t) ==
    /\ subscribeLock = 0
    /\ \A u \in DOMAIN pc : pc[u] # "pub_send"
    /\ subscribeLock' = t

(* a Lock that does not wait *)
LockNoWait(t) == subscribeLock' = t

Lock(t) == subscribeLock = 0 /\ subscribeLock' = t

Unlock(t) == subscribeLock' = 0

(* a load whose type assertion fails: the nil map *)
loadNil(t) == Commit(subscriptions, [loaded EXCEPT ![t] = 0], heap)

load(t) == Commit(subscriptions, [loaded EXCEPT ![t] = subscriptions], heap)

(* a store that writes the new content into the map that is in the cell *)
storeInPlace(t, val) ==
    IF subscriptions = 0
    THEN Commit(NewId, [loaded EXCEPT ![t] = 0],
                [i \in (DOMAIN heap) \cup {NewId} |-> IF i = NewId THEN val ELSE heap[i]])
    ELSE Commit(subscriptions, [loaded EXCEPT ![t] = 0],
                [heap EXCEPT ![subscriptions] = val])

(* h.store(new) of a map that add or remove built; the thread's temporary  *)
(* reference to the map it loaded ends here                                *)
storeNew(t, val) ==
    Commit(NewId, [loaded EXCEPT ![t] = 0],
           [i \in (DOMAIN heap) \cup {NewId} |-> IF i = NewId THEN val ELSE heap[i]])

(* h.store(s) of the very map that was loaded (remove found nothing) *)
storeSame(t, id) == Commit(id, [loaded EXCEPT ![t] = 0], heap)

Goto(t, label) == pc' = [pc EXCEPT ![t] = label]

(* a call returns: its locals are gone *)
Return(t) ==
    /\ Goto(t, "idle")
    /\ arg' = [arg EXCEPT ![t] = "nil"]
    /\ err' = [err EXCEPT ![t] = "nil"]
    /\ sk' = [sk EXCEPT ![t] = 0]
    /\ idx' = [idx EXCEPT ![t] = 0]
    /\ delivered' = [delivered EXCEPT ![t] = <<>>]
    /\ atStart' = [atStart EXCEPT ![t] = <<>>]
    /\ Commit(subscriptions, [loaded EXCEPT ![t] = 0], heap)

(* A Subscribe in flight that has built its sink and not yet stored it *)
Pending == {t \in Threads : pc[t] \in {"sub_check", "sub_store"} /\ err[t] = "nil"}

(* Subscribe(l): eventType, s, err := newSink(l). The new sink is private  *)
(* to the call until it is stored; it is entered in sinks, and so named,   *)
(* by the store.                                                           *)
SubscribeCall(t, l) ==
    /\ pc[t] = "idle"
    /\ newSink(ShapeOf(l)).err = "nil" => Len(sinks) + Cardinality(Pending) < MaxSinks
    /\ arg' = [arg EXCEPT ![t] = l]
    /\ err' = [err EXCEPT ![t] = newSink(ShapeOf(l)).err]
    /\ Goto(t, "sub_check")
    /\ UNCHANGED <<subscribeLock, subscriptions, heap, sinks, cancels, calls, chans,
                   sk, loaded, idx, delivered, atStart, auxVars>>

(* if err != nil { return nil, err } *)
SubscribeFail(t) ==
    /\ pc[t] = "sub_check"
    /\ err[t] # "nil"
    /\ Return(t)
    /\ UNCHANGED <<subscribeLock, sinks, cancels, calls, chans, auxVars>>

(* a Subscribe that goes on after newSink has failed *)
SubscribeLockUnchecked(t) ==
    /\ pc[t] = "sub_check"
    /\ subscribeLock = 0 /\ subscribeLock' = t
    /\ Commit(subscriptions, [loaded EXCEPT ![t] = subscriptions], heap)
    /\ Goto(t, "sub_store")
    /\ UNCHANGED <<sinks, cancels, calls, chans,
                   arg, err, sk, idx, delivered, atStart, auxVars>>

(* h.subscribeLock.Lock(); h.load() *)
SubscribeLock(t) ==
    /\ pc[t] = "sub_check"
    /\ err[t] = "nil"
    /\ Lock(t)
    /\ load(t)
    /\ Goto(t, "sub_store")
    /\ UNCHANGED <<sinks, cancels, calls, chans,
                   arg, err, sk, idx, delivered, atStart, auxVars>>

(* a Subscribe that takes the sink of an equal listener for its own *)
SubscribeStoreByValue(t) ==
    LET r == newSink(ShapeOf(arg[t]))
        same == {i \in 1..Len(sinks) : sinks[i].listener = arg[t]}
        s == IF same = {} THEN Len(sinks) + 1 ELSE CHOOSE i \in same : TRUE
    IN /\ pc[t] = "sub_store"
       /\ sinks' = IF same = {} THEN Append(sinks, [listener |-> arg[t], kind |-> r.kind])
                   ELSE sinks
       /\ cancels' = IF same = {}
                     THEN Append(cancels, [once |-> "none", eventType |-> r.eventType])
                     ELSE cancels
       /\ sk' = [sk EXCEPT ![t] = s]
       /\ storeNew(t, add(Snap(loaded[t]), r.eventType, s))
       /\ Goto(t, "sub_unlock")
       /\ UNCHANGED <<subscribeLock, calls, chans,
                      arg, err, idx, delivered, atStart, auxVars>>

(* a Subscribe that files every sink under one type *)
SubscribeStoreWrongKey(t) ==
    LET r == newSink(ShapeOf(arg[t]))
        s == Len(sinks) + 1
    IN /\ pc[t] = "sub_store"
       /\ sinks' = Append(sinks, [listener |-> arg[t], kind |-> r.kind])
       /\ cancels' = Append(cancels, [once |-> "none", eventType |-> r.eventType])
       /\ sk' = [sk EXCEPT ![t] = s]
       /\ storeNew(t, add(Snap(loaded[t]), "TestEvent", s))
       /\ Goto(t, "sub_unlock")
       /\ UNCHANGED <<subscribeLock, calls, chans,
                      arg, err, idx, delivered, atStart, auxVars>>

(* h.store(<loaded>.add(eventType, s)) *)
SubscribeStore(t) ==
    LET r == newSink(ShapeOf(arg[t]))
        s == Len(sinks) + 1
    IN /\ pc[t] = "sub_store"
       /\ sinks' = Append(sinks, [listener |-> arg[t], kind |-> r.kind])
       /\ cancels' = Append(cancels, [once |-> "none", eventType |-> r.eventType])
       /\ sk' = [sk EXCEPT ![t] = s]
       /\ storeNew(t, add(Snap(loaded[t]), r.eventType, s))
       /\ Goto(t, "sub_unlock")
       /\ UNCHANGED <<subscribeLock, calls, chans,
                      arg, err, idx, delivered, atStart, auxVars>>

(* Unlock, build the Cancel closure and return it *)
SubscribeReturn(t) ==
    /\ pc[t] = "sub_unlock"
    /\ Unlock(t)
    /\ cancels' = [cancels EXCEPT ![sk[t]].once = "idle"]
    /\ Return(t)
    /\ UNCHANGED <<sinks, calls, chans, auxVars>>

(* a Cancel closure without the once: every call runs the function *)
CancelCallNoOnce(t, s) ==
    /\ pc[t] = "idle"
    /\ s \in Handles
    /\ sk' = [sk EXCEPT ![t] = s]
    /\ cancels' = [cancels EXCEPT ![s].once = "running"]
    /\ Goto(t, "can_lock")
    /\ UNCHANGED <<subscribeLock, subscriptions, heap, sinks, calls, chans,
                   arg, err, loaded, idx, delivered, atStart, auxVars>>

(* The Cancel closure: once.Do. A first caller runs the function; a caller *)
(* that finds the once done returns at once; a caller that finds it running *)
(* waits for it.                                                            *)
CancelCall(t, s) ==
    /\ pc[t] = "idle"
    /\ s \in Handles
    /\ sk' = [sk EXCEPT ![t] = s]
    /\ CASE cancels[s].once = "done" ->
              /\ Goto(t, "can_done")
              /\ UNCHANGED cancels
         [] cancels[s].once = "idle" ->
              /\ cancels' = [cancels EXCEPT ![s].once = "running"]
              /\ Goto(t, "can_lock")
         [] OTHER ->
              /\ Goto(t, "can_wait")
              /\ UNCHANGED cancels
    /\ UNCHANGED <<subscribeLock, subscriptions, heap, sinks, calls, chans,
                   arg, err, loaded, idx, delivered, atStart, auxVars>>

(* a once whose later callers do not wait for the first to finish *)
CancelDoneNoWait(t) ==
    /\ pc[t] \in {"can_done", "can_wait"}
    /\ Return(t)
    /\ UNCHANGED <<subscribeLock, sinks, cancels, calls, chans, auxVars>>

(* the once is done: return without running the function *)
CancelDone(t) ==
    /\ pc[t] \in {"can_done", "can_wait"}
    /\ cancels[sk[t]].once = "done"
    /\ Return(t)
    /\ UNCHANGED <<subscribeLock, sinks, cancels, calls, chans, auxVars>>

(* a Cancel that loads without taking the writers' lock *)
CancelLockFree(t) ==
    /\ pc[t] = "can_lock"
    /\ Commit(subscriptions, [loaded EXCEPT ![t] = subscriptions], heap)
    /\ Goto(t, "can_store")
    /\ UNCHANGED <<subscribeLock, sinks, cancels, calls, chans,
                   arg, err, sk, idx, delivered, atStart, auxVars>>

(* h.subscribeLock.Lock(); h.load() *)
CancelLock(t) ==
    /\ pc[t] = "can_lock"
    /\ Lock(t)
    /\ load(t)
    /\ Goto(t, "can_store")
    /\ UNCHANGED <<sinks, cancels, calls, chans,
                   arg, err, sk, idx, delivered, atStart, auxVars>>

(* a Cancel that computes the removal and does not store it *)
CancelStoreDropped(t) ==
    /\ pc[t] = "can_store"
    /\ Commit(subscriptions, [loaded EXCEPT ![t] = 0], heap)
    /\ Goto(t, "can_unlock")
    /\ UNCHANGED <<subscribeLock, sinks, cancels, calls, chans,
                   arg, err, sk, idx, delivered, atStart, auxVars>>

(* h.store(<loaded>.remove(eventType, s)) *)
CancelStore(t) ==
    LET r == remove(Snap(loaded[t]), cancels[sk[t]].eventType, sk[t]) IN
    /\ pc[t] = "can_store"
    /\ IF r.same THEN storeSame(t, loaded[t]) ELSE storeNew(t, r.val)
    /\ Goto(t, "can_unlock")
    /\ UNCHANGED <<subscribeLock, sinks, cancels, calls, chans,
                   arg, err, sk, idx, delivered, atStart, auxVars>>

(* Unlock; the once is done; return *)
CancelReturn(t) ==
    /\ pc[t] = "can_unlock"
    /\ Unlock(t)
    /\ cancels' = [cancels EXCEPT ![sk[t]].once = "done"]
    /\ Return(t)
    /\ UNCHANGED <<sinks, calls, chans, auxVars>>

(* a Publish that takes the writers' lock for the delivery *)
PublishCallHolding(t, e) ==
    /\ pc[t] = "idle"
    /\ subscribeLock = 0
    /\ subscribeLock' = t
    /\ arg' = [arg EXCEPT ![t] = e]
    /\ atStart' = [atStart EXCEPT ![t] =
                      [live |-> {s \in SinkIds : cancels[s].once = "idle"},
                       dead |-> {s \in SinkIds : cancels[s].once = "done"}]]
    /\ Commit(subscriptions, [loaded EXCEPT ![t] = subscriptions], heap)
    /\ idx' = [idx EXCEPT ![t] = 1]
    /\ Goto(t, "pub_send")
    /\ UNCHANGED <<sinks, cancels, calls, chans,
                   err, sk, delivered, candidate, outcome, regVars>>

(* a Publish that waits for the writers' lock to be free *)
PublishCallLocked(t, e) ==
    /\ pc[t] = "idle"
    /\ subscribeLock = 0
    /\ arg' = [arg EXCEPT ![t] = e]
    /\ atStart' = [atStart EXCEPT ![t] =
                      [live |-> {s \in SinkIds : cancels[s].once = "idle"},
                       dead |-> {s \in SinkIds : cancels[s].once = "done"}]]
    /\ Commit(subscriptions, [loaded EXCEPT ![t] = subscriptions], heap)
    /\ idx' = [idx EXCEPT ![t] = 1]
    /\ Goto(t, "pub_send")
    /\ UNCHANGED <<subscribeLock, sinks, cancels, calls, chans,
                   err, sk, delivered, candidate, outcome, regVars>>

(* Publish(e) is entered and does h.load(); atStart notes the state of     *)
(* every Cancel closure at that moment                                     *)
PublishCall(t, e) ==
    /\ pc[t] = "idle"
    /\ arg' = [arg EXCEPT ![t] = e]
    /\ atStart' = [atStart EXCEPT ![t] =
                      [live |-> {s \in SinkIds : cancels[s].once = "idle"},
                       dead |-> {s \in SinkIds : cancels[s].once = "done"}]]
    /\ load(t)
    /\ idx' = [idx EXCEPT ![t] = 1]
    /\ Goto(t, "pub_send")
    /\ UNCHANGED <<subscribeLock, sinks, cancels, calls, chans,
                   err, sk, delivered, candidate, outcome, regVars>>

(* a publish that reads the cell again at every sink *)
RangeCurrent(t) == Lookup(Snap(subscriptions), TypeOf(arg[t]))

(* a lookup that ignores the event's type *)
RangeAnyType(t) ==
    LET m == Snap(loaded[t])
    IN IF DOMAIN m = {} THEN <<>> ELSE m[CHOOSE k \in DOMAIN m : TRUE]

(* the list subscriptions.publish ranges over: s[reflect.TypeOf(e)] *)
Range(t) == Lookup(Snap(loaded[t]), TypeOf(arg[t]))

(* a channel send that gives up when the buffer is full *)
sendNoWait(s, v) ==
    IF sinks[s].kind = "sinkChan"
    THEN /\ chans' = [chans EXCEPT ![sinks[s].listener] =
                         IF Len(@) < ChanCap THEN Append(@, v) ELSE @]
         /\ UNCHANGED calls
    ELSE /\ calls' = IF sinks[s].listener = Counter THEN calls + 1 ELSE calls
         /\ UNCHANGED chans

(* sink.send(v): a call of the function or method, or a channel send *)
send(s, v) ==
    IF sinks[s].kind = "sinkChan"
    THEN /\ Len(chans[sinks[s].listener]) < ChanCap
         /\ chans' = [chans EXCEPT ![sinks[s].listener] = Append(@, v)]
         /\ UNCHANGED calls
    ELSE /\ calls' = IF sinks[s].listener = Counter THEN calls + 1 ELSE calls
         /\ UNCHANGED chans

Panics(s) == sinks[s].listener = Panicker

(* a Publish that recovers from a listener's panic and goes on *)
PublishPanicRecovered(t) ==
    /\ pc[t] = "pub_send"
    /\ idx[t] <= Len(Range(t))
    /\ Panics(Range(t)[idx[t]])
    /\ delivered' = [delivered EXCEPT
                       ![t] = Append(@, [sink |-> Range(t)[idx[t]], val |-> arg[t]])]
    /\ idx' = [idx EXCEPT ![t] = @ + 1]
    /\ UNCHANGED <<subscribeLock, subscriptions, heap, sinks, cancels, calls, chans,
                   pc, arg, err, sk, loaded, atStart, auxVars>>

(* sink.send(v) calls a listener that panics: the panic unwinds            *)
(* subscriptions.publish and hub.Publish, neither of which recovers        *)
PublishPanic(t) ==
    /\ pc[t] = "pub_send"
    /\ idx[t] <= Len(Range(t))
    /\ Panics(Range(t)[idx[t]])
    /\ delivered' = [delivered EXCEPT
                       ![t] = Append(@, [sink |-> Range(t)[idx[t]], val |-> arg[t]])]
    /\ Goto(t, "pub_panic")
    /\ UNCHANGED <<subscribeLock, subscriptions, heap, sinks, cancels, calls, chans,
                   arg, err, sk, loaded, idx, atStart, auxVars>>

(* the panic has left Publish; the caller recovers and goes on *)
PanicReturn(t) ==
    /\ pc[t] = "pub_panic"
    /\ Return(t)
    /\ UNCHANGED <<subscribeLock, sinks, cancels, calls, chans, auxVars>>

Reenters(s) == sinks[s].listener = Reentrant

(* sink.send(v) calls a listener that will call the hub: the Publish is   *)
(* inside the listener until the listener returns                          *)
ListenerEnter(t) ==
    /\ pc[t] = "pub_send"
    /\ idx[t] <= Len(Range(t))
    /\ Reenters(Range(t)[idx[t]])
    /\ Goto(t, "pub_listener")
    /\ UNCHANGED <<subscribeLock, subscriptions, heap, sinks, cancels, calls, chans,
                   arg, err, sk, loaded, idx, delivered, atStart, auxVars>>

(* the listener returns to subscriptions.publish, which goes on *)
ListenerReturn(t, inner) ==
    /\ pc[t] = "pub_listener"
    /\ pc[inner] = "idle"
    /\ delivered' = [delivered EXCEPT
                       ![t] = Append(@, [sink |-> Range(t)[idx[t]], val |-> arg[t]])]
    /\ idx' = [idx EXCEPT ![t] = @ + 1]
    /\ Goto(t, "pub_send")
    /\ UNCHANGED <<subscribeLock, subscriptions, heap, sinks, cancels, calls, chans,
                   arg, err, sk, loaded, atStart, auxVars>>

(* a delivery that holds back from a sink whose Cancel has returned *)
PublishSendLive(t) ==
    /\ pc[t] = "pub_send"
    /\ idx[t] <= Len(Range(t))
    /\ ~Panics(Range(t)[idx[t]])
    /\ ~Reenters(Range(t)[idx[t]])
    /\ cancels[Range(t)[idx[t]]].once # "done"
    /\ send(Range(t)[idx[t]], arg[t])
    /\ delivered' = [delivered EXCEPT
                       ![t] = Append(@, [sink |-> Range(t)[idx[t]], val |-> arg[t]])]
    /\ idx' = [idx EXCEPT ![t] = @ + 1]
    /\ UNCHANGED <<subscribeLock, subscriptions, heap, sinks, cancels,
                   pc, arg, err, sk, loaded, atStart, auxVars>>

PublishSend(t) ==
    /\ pc[t] = "pub_send"
    /\ idx[t] <= Len(Range(t))
    /\ ~Panics(Range(t)[idx[t]])
    /\ ~Reenters(Range(t)[idx[t]])
    /\ send(Range(t)[idx[t]], arg[t])
    /\ delivered' = [delivered EXCEPT
                       ![t] = Append(@, [sink |-> Range(t)[idx[t]], val |-> arg[t]])]
    /\ idx' = [idx EXCEPT ![t] = @ + 1]
    /\ UNCHANGED <<subscribeLock, subscriptions, heap, sinks, cancels,
                   pc, arg, err, sk, loaded, atStart, auxVars>>

PublishReturn(t) ==
    /\ pc[t] = "pub_send"
    /\ idx[t] > Len(Range(t))
    /\ Return(t)
    /\ UNCHANGED <<subscribeLock, sinks, cancels, calls, chans, auxVars>>

(* the goroutine ranging over a subscribed channel *)
Receive(l) ==
    /\ chans[l] # <<>>
    /\ chans' = [chans EXCEPT ![l] = Tail(@)]
    /\ UNCHANGED <<subscribeLock, subscriptions, heap, sinks, cancels, calls,
                   threadVars, auxVars>>

Publish(t, e) == PublishCall(t, e) /\ UNCHANGED published

Next ==
    \/ \E t \in Threads, l \in Listeners : SubscribeCall(t, l)
    \/ \E t \in Threads : SubscribeFail(t)
    \/ \E t \in Threads : SubscribeLock(t)
    \/ \E t \in Threads : SubscribeStore(t)
    \/ \E t \in Threads : SubscribeReturn(t)
    \/ \E t \in Threads, s \in SinkIds : CancelCall(t, s)
    \/ \E t \in Threads : CancelDone(t)
    \/ \E t \in Threads : CancelLock(t)
    \/ \E t \in Threads : CancelStore(t)
    \/ \E t \in Threads : CancelReturn(t)
    \/ \E t \in Threads, e \in Events : Publish(t, e)
    \/ \E t \in Threads : PublishSend(t)
    \/ \E t \in Threads : PublishReturn(t)

Spec == Init /\ [][Next]_vars

(* ----------------------- the inspector on its own ----------------------- *)
Types == ConcreteTypes \cup InterfaceTypes

Shapes ==
    {NoShape}
    \cup {FuncShape(i, o, ty) : i \in 0..MaxArity, o \in 0..MaxArity, ty \in Types}
    \cup {ChanShape(d, ty) : d \in {"recv", "send", "both"}, ty \in Types}
    \cup UNION {{OtherShape(n, i, o, ty) : i \in 1..(MaxArity + 1), o \in 0..MaxArity}
                   : n \in 0..MaxArity, ty \in Types}

InitClassify ==
    /\ InitHub
    /\ NoRegistry
    /\ InitThreads(Workers)
    /\ candidate \in Shapes
    /\ outcome = Rejected("none")

Classify ==
    /\ outcome.err = "none"
    /\ outcome' = newSink(candidate)
    /\ UNCHANGED <<subscribeLock, subscriptions, heap, sinks, cancels, calls, chans,
                   threadVars, published, candidate, regVars>>

SpecClassify == InitClassify /\ [][Classify]_vars

(* ------------------------ concurrent publishers ------------------------- *)
TestEvents == {e \in Events : TypeOf(e) = "TestEvent"}

(* the hub after New() and one Subscribe of the counting listener *)
InitPublishers ==
    /\ NoRegistry
    /\ subscribeLock = 0
    /\ subscriptions = 1
    /\ heap = [i \in {1} |-> add(NilMap, newSink(ShapeOf(Counter)).eventType, 1)]
    /\ sinks = <<[listener |-> Counter, kind |-> newSink(ShapeOf(Counter)).kind]>>
    /\ cancels = <<[once |-> "idle", eventType |-> newSink(ShapeOf(Counter)).eventType]>>
    /\ calls = 0
    /\ chans = [l \in ChanListeners |-> <<>>]
    /\ InitThreads(Publishers)
    /\ candidate = NoShape
    /\ outcome = Rejected("none")

(* each publisher publishes PerPublisher events *)
PublisherCall(t, e) ==
    /\ published[t] < PerPublisher
    /\ PublishCall(t, e)
    /\ published' = [published EXCEPT ![t] = @ + 1]

NextPublishers ==
    \/ \E t \in Threads, e \in TestEvents : PublisherCall(t, e)
    \/ \E t \in Threads : PublishSend(t)
    \/ \E t \in Threads : PublishReturn(t)

SpecPublishers == InitPublishers /\ [][NextPublishers]_vars

(* ------------------ writers beside a blocked Publish -------------------- *)
(* the goroutine that publishes to the subscribed channel; nothing receives *)
ChanPublishers == {3}

ChanSink == [listener |-> "l3", kind |-> newSink(ShapeOf("l3")).kind]

(* the hub after New() and Subscribe(l3) *)
InitWriters ==
    /\ NoRegistry
    /\ subscribeLock = 0
    /\ subscriptions = 1
    /\ heap = [i \in {1} |-> add(NilMap, newSink(ShapeOf("l3")).eventType, 1)]
    /\ sinks = <<ChanSink>>
    /\ cancels = <<[once |-> "idle", eventType |-> newSink(ShapeOf("l3")).eventType]>>
    /\ calls = 0
    /\ chans = [l \in ChanListeners |-> <<>>]
    /\ InitThreads(Workers \cup ChanPublishers)
    /\ candidate = NoShape
    /\ outcome = Rejected("none")

(* what the writers subscribe: a method listener, and a rejected one *)
WriterListeners == {"l1", "nil"}

NextWriters ==
    \/ \E t \in Workers, l \in WriterListeners : SubscribeCall(t, l)
    \/ \E t \in Workers : SubscribeFail(t)
    \/ \E t \in Workers : SubscribeLock(t)
    \/ \E t \in Workers : SubscribeStore(t)
    \/ \E t \in Workers : SubscribeReturn(t)
    \/ \E t \in Workers, s \in SinkIds : CancelCall(t, s)
    \/ \E t \in Workers : CancelDone(t)
    \/ \E t \in Workers : CancelLock(t)
    \/ \E t \in Workers : CancelStore(t)
    \/ \E t \in Workers : CancelReturn(t)
    \/ \E t \in ChanPublishers : Publish(t, "firstEvent")
    \/ \E t \in ChanPublishers : PublishSend(t)
    \/ \E t \in ChanPublishers : PublishReturn(t)

(* The scheduler runs every runnable goroutine; a goroutine waiting for a  *)
(* sync.Mutex is handed the lock once it has waited long (starvation mode). *)
FairWriters ==
    \A t \in Workers :
        /\ WF_vars(SubscribeFail(t) \/ SubscribeStore(t) \/ SubscribeReturn(t)
                      \/ CancelDone(t) \/ CancelStore(t) \/ CancelReturn(t))
        /\ SF_vars(SubscribeLock(t) \/ CancelLock(t))

SpecWriters == InitWriters /\ [][NextWriters]_vars /\ FairWriters

(* ------------------------- a panicking listener ------------------------- *)
PanicListeners == {Panicker, "l1"}

NextPanic ==
    \/ \E t \in Threads, l \in PanicListeners : SubscribeCall(t, l)
    \/ \E t \in Threads : SubscribeLock(t)
    \/ \E t \in Threads : SubscribeStore(t)
    \/ \E t \in Threads : SubscribeReturn(t)
    \/ \E t \in Threads, s \in SinkIds : CancelCall(t, s)
    \/ \E t \in Threads : CancelDone(t)
    \/ \E t \in Threads : CancelLock(t)
    \/ \E t \in Threads : CancelStore(t)
    \/ \E t \in Threads : CancelReturn(t)
    \/ \E t \in Threads : Publish(t, "firstEvent")
    \/ \E t \in Threads : PublishSend(t)
    \/ \E t \in Threads : PublishPanic(t)
    \/ \E t \in Threads : PanicReturn(t)
    \/ \E t \in Threads : PublishReturn(t)

SpecPanic == Init /\ [][NextPanic]_vars

(* ------------------------- a subscribed channel ------------------------- *)
(* the hub after New(), Subscribe(l3) and Subscribe of the counting listener *)
InitChan ==
    /\ NoRegistry
    /\ subscribeLock = 0
    /\ subscriptions = 1
    /\ heap = [i \in {1} |->
                 add(add(NilMap, newSink(ShapeOf("l3")).eventType, 1),
                     newSink(ShapeOf(Counter)).eventType, 2)]
    /\ sinks = <<ChanSink,
                 [listener |-> Counter, kind |-> newSink(ShapeOf(Counter)).kind]>>
    /\ cancels = <<[once |-> "idle", eventType |-> newSink(ShapeOf("l3")).eventType],
                   [once |-> "idle", eventType |-> newSink(ShapeOf(Counter)).eventType]>>
    /\ calls = 0
    /\ chans = [l \in ChanListeners |-> <<>>]
    /\ InitThreads(Publishers)
    /\ candidate = NoShape
    /\ outcome = Rejected("none")

NextChan ==
    \/ \E t \in Threads, e \in TestEvents : PublisherCall(t, e)
    \/ \E t \in Threads : PublishSend(t)
    \/ \E t \in Threads : PublishReturn(t)
    \/ \E l \in ChanListeners : Receive(l)

SpecChan == InitChan /\ [][NextChan]_vars

(* ------------------------ the registry on its own ----------------------- *)
(* Maps and their sink lists as objects: regMaps gives, for every map made, *)
(* the list object of each of its keys, regLists the content of every list *)
(* object. A list made for key k of map n is the object <<n, k>>.          *)
RegTypes == {"TestEvent", "string"}

RegSinks == 1..MaxSinks

RegValOf(maps, lists, m) ==
    IF m = 0 THEN NilMap ELSE [k \in DOMAIN maps[m] |-> lists[maps[m][k]]]

RegVal(m) == RegValOf(regMaps, regLists, m)

SortedSeq(S) ==
    CHOOSE q \in [1..Cardinality(S) -> S] : \A i, j \in 1..Cardinality(S) : i < j => q[i] < q[j]

(* the registries a hub can hold: every sink under one type at most, every *)
(* list in the order of subscription, at least one key                     *)
RegInputs ==
    UNION {{[k \in K |-> SortedSeq({x \in RegSinks : f[x] = k})] :
               K \in {K \in SUBSET RegTypes :
                         K # {} /\ \A x \in RegSinks : f[x] \in K \cup {"none"}}} :
           f \in [RegSinks -> RegTypes \cup {"none"}]}

InitRegistry ==
    /\ InitHub
    /\ InitThreads(Workers)
    /\ candidate = NoShape
    /\ outcome = Rejected("none")
    /\ regOp = NoCall
    /\ \/ regMaps = <<>> /\ regLists = <<>>
       \/ \E v \in RegInputs :
             /\ regMaps = [m \in {1} |-> [k \in DOMAIN v |-> <<1, k>>]]
             /\ regLists = [l \in {<<1, k>> : k \in DOMAIN v} |-> v[l[2]]]

NextMap == Cardinality(DOMAIN regMaps) + 1

(* the receivers there are: the nil map and the maps made *)
Receivers == {0} \cup DOMAIN regMaps

(* sinks that newSink has just made: they are in no list yet *)
NewSinks(m) ==
    (1..(MaxSinks + 1)) \ UNION {SinksOfList(RegVal(m)[k]) : k \in DOMAIN RegVal(m)}

(* make(subscriptions), and a new list for every key of val *)
Clone(val, call) ==
    /\ regMaps' = [m \in (DOMAIN regMaps) \cup {NextMap} |->
                     IF m = NextMap THEN [k \in DOMAIN val |-> <<NextMap, k>>]
                     ELSE regMaps[m]]
    /\ regLists' = [l \in (DOMAIN regLists) \cup {<<NextMap, k>> : k \in DOMAIN val} |->
                      IF l[1] = NextMap THEN val[l[2]] ELSE regLists[l]]
    /\ regOp' = [call EXCEPT !.result = NextMap]

(* an add that appends to the receiver's own list and returns the receiver *)
RegistryAddInPlace(m, eventType, newSk) ==
    /\ regOp.op = "none"
    /\ IF m = 0 \/ eventType \notin DOMAIN RegVal(m)
       THEN Clone(add(RegVal(m), eventType, newSk),
                  [op |-> "add", recv |-> m, eventType |-> eventType,
                   sink |-> newSk, result |-> 0])
       ELSE /\ regLists' = [regLists EXCEPT ![regMaps[m][eventType]] = Append(@, newSk)]
            /\ regOp' = [op |-> "add", recv |-> m, eventType |-> eventType,
                         sink |-> newSk, result |-> m]
            /\ UNCHANGED regMaps
    /\ UNCHANGED <<subscribeLock, subscriptions, heap, sinks, cancels, calls, chans,
                   threadVars, published, candidate, outcome>>

(* s.add(eventType, newSink): the clone gets a copy of every list of s,    *)
(* the new sink is appended to the clone's list, the clone is returned     *)
RegistryAdd(m, eventType, newSk) ==
    /\ regOp.op = "none"
    /\ Clone(add(RegVal(m), eventType, newSk),
             [op |-> "add", recv |-> m, eventType |-> eventType,
              sink |-> newSk, result |-> 0])
    /\ UNCHANGED <<subscribeLock, subscriptions, heap, sinks, cancels, calls, chans,
                   threadVars, published, candidate, outcome>>

(* s.remove(eventType, oldSink): s itself when nothing is removed, else a  *)
(* clone with the filtered list and a copy of every other list             *)
RegistryRemove(m, eventType, oldSink) ==
    LET r == remove(RegVal(m), eventType, oldSink)
        call == [op |-> "remove", recv |-> m, eventType |-> eventType,
                 sink |-> oldSink, result |-> m]
    IN /\ regOp.op = "none"
       /\ IF r.same
          THEN regOp' = call /\ UNCHANGED <<regMaps, regLists>>
          ELSE Clone(r.val, call)
       /\ UNCHANGED <<subscribeLock, subscriptions, heap, sinks, cancels, calls, chans,
                      threadVars, published, candidate, outcome>>

NextRegistry ==
    \/ \E m \in Receivers, ty \in RegTypes : \E x \in NewSinks(m) : RegistryAdd(m, ty, x)
    \/ \E m \in Receivers, ty \in RegTypes, x \in RegSinks : RegistryRemove(m, ty, x)

SpecRegistry == InitRegistry /\ [][NextRegistry]_vars

(* ---------------------- a listener that calls the hub ------------------- *)
(* One goroutine: Outer is its frame of Publish, Inner the frame of the    *)
(* Subscribe or Cancel that a listener calls while Publish is calling it.  *)
Outer == 1

Inner == 2

ReentrantListeners == {Reentrant, "l1"}

(* the listener's body calls h.Subscribe(l) *)
NestedSubscribe(l) == pc[Outer] = "pub_listener" /\ SubscribeCall(Inner, l)

(* the listener's body calls a Cancel *)
NestedCancel(s) == pc[Outer] = "pub_listener" /\ CancelCall(Inner, s)

NextReentrant ==
    \/ \E l \in ReentrantListeners : SubscribeCall(Outer, l)
    \/ \E l \in ReentrantListeners : NestedSubscribe(l)
    \/ \E t \in Threads : SubscribeLock(t)
    \/ \E t \in Threads : SubscribeStore(t)
    \/ \E t \in Threads : SubscribeReturn(t)
    \/ \E s \in SinkIds : CancelCall(Outer, s)
    \/ \E s \in SinkIds : NestedCancel(s)
    \/ \E t \in Threads : CancelDone(t)
    \/ \E t \in Threads : CancelLock(t)
    \/ \E t \in Threads : CancelStore(t)
    \/ \E t \in Threads : CancelReturn(t)
    \/ \E e \in TestEvents : Publish(Outer, e)
    \/ PublishSend(Outer)
    \/ ListenerEnter(Outer)
    \/ ListenerReturn(Outer, Inner)
    \/ PublishReturn(Outer)

SpecReentrant == Init /\ [][NextReentrant]_vars

(* ------------------------------ claims --------------------------------- *)
Publishing(t) == pc[t] = "pub_send"

(* every send of the Publish has been made: it is about to return *)
Finished(t) == Publishing(t) /\ idx[t] > Len(Range(t))

Invoked(t) == {delivered[t][i].sink : i \in DOMAIN delivered[t]}

Times(t, s, v) ==
    Cardinality({i \in DOMAIN delivered[t] :
                    delivered[t][i].sink = s /\ delivered[t][i].val = v})

TimesAny(t, s) == Cardinality({i \in DOMAIN delivered[t] : delivered[t][i].sink = s})

(* the sinks whose Subscribe had returned when the Publish of t started    *)
(* and whose Cancel has not been invoked since                             *)
StillLive(t) == {s \in atStart[t].live : cancels[s].once = "idle"}

Increasing(seq) == \A i, j \in DOMAIN seq : i < j => seq[i] < seq[j]

DeliveredSinks(t) == [i \in DOMAIN delivered[t] |-> delivered[t][i].sink]

(* C1: a function listener f of event type T, subscribed and not           *)
(* cancelled, is invoked exactly once, with the published value, by each   *)
(* Publish of a T before that Publish returns; a Publish of a value of     *)
(* another type never invokes it.                                          *)
TheoremC1 ==
    \A t \in Threads : Publishing(t) =>
        \A s \in SinkIds : sinks[s].kind = "sinkFunc" =>
            /\ cancels[s].eventType # TypeOf(arg[t]) => TimesAny(t, s) = 0
            /\ TimesAny(t, s) = Times(t, s, arg[t])
            /\ TimesAny(t, s) <= 1
            /\ (Finished(t) /\ s \in StillLive(t)
                  /\ cancels[s].eventType = TypeOf(arg[t])) => Times(t, s, arg[t]) = 1

WitnessC1 ==
    \E t \in Threads : \E s \in SinkIds :
        /\ Finished(t)
        /\ s \in StillLive(t)
        /\ sinks[s].kind = "sinkFunc"
        /\ Times(t, s, arg[t]) = 1
        /\ \E r \in SinkIds : cancels[r].eventType # TypeOf(arg[t])

TheoremC8 ==
    /\ \A s \in Handles : cancels[s].once = "idle" =>
          \E i \in DOMAIN Lookup(Snap(subscriptions), cancels[s].eventType) :
              Lookup(Snap(subscriptions), cancels[s].eventType)[i] = s
    /\ \A t \in Threads : Finished(t) =>
          \A s \in StillLive(t) :
              cancels[s].eventType = TypeOf(arg[t]) => TimesAny(t, s) >= 1

WitnessC8 ==
    \E t, u \in Threads : \E s \in SinkIds :
        /\ Finished(t)
        /\ s \in StillLive(t)
        /\ TimesAny(t, s) >= 1
        /\ sinks[s].kind = "sinkMethod"
        /\ pc[u] = "sub_unlock"

hubState == <<subscribeLock, subscriptions, heap, sinks, cancels>>

InCancelBody(t) == pc[t] \in {"can_lock", "can_store", "can_unlock"}

(* C3: a Cancel closure invoked again after it has run returns without    *)
(* taking the writers' lock and without storing: the hub is as it was, so  *)
(* later deliveries are those after a single invocation. Only the first    *)
(* invocation runs the removal.                                            *)
TheoremC3 ==
    /\ [](\A t \in Threads : InCancelBody(t) =>
            /\ cancels[sk[t]].once = "running"
            /\ \A u \in Threads : (InCancelBody(u) /\ sk[u] = sk[t]) => u = t)
    /\ [][\A t \in Threads :
            /\ (/\ pc[t] = "idle"
                /\ pc'[t] \in {"can_done", "can_wait", "can_lock"}
                /\ cancels[sk'[t]].once = "done")
                  => (pc'[t] = "can_done" /\ UNCHANGED hubState)
            /\ (pc[t] = "can_done" /\ pc'[t] # "can_done")
                  => (pc'[t] = "idle" /\ UNCHANGED hubState)]_vars

WitnessC3 ==
    \E t \in Threads :
        /\ pc[t] = "can_done"
        /\ \E s \in SinkIds : s # sk[t] /\ cancels[s].once = "idle"

(* C4: a Subscribe whose listener newSink rejects returns a nil Cancel and *)
(* an error, takes no lock, stores nothing and leaves the hub as it was;   *)
(* no sink ever holds a rejected listener, so no Publish invokes one.      *)
TheoremC4 ==
    /\ [](\A s \in SinkIds : newSink(ShapeOf(sinks[s].listener)).err = "nil")
    /\ [](\A t \in Threads : (pc[t] = "sub_check" /\ err[t] # "nil") =>
            (sk[t] = 0 /\ subscribeLock # t))
    /\ [][\A t \in Threads :
            /\ (pc[t] = "idle" /\ pc'[t] = "sub_check" /\ err'[t] # "nil")
                  => UNCHANGED hubState
            /\ (pc[t] = "sub_check" /\ err[t] # "nil" /\ pc'[t] # "sub_check")
                  => (pc'[t] = "idle" /\ UNCHANGED hubState)]_vars

WitnessC4 ==
    \E t \in Threads :
        /\ pc[t] = "sub_check"
        /\ err[t] = "ErrInvalidListener"
        /\ subscriptions # 0

(* every sink of the event's type had been cancelled (or there never was   *)
(* one) when the Publish of t started                                      *)
NoSubscriber(t) ==
    \A s \in SinkIds : cancels[s].eventType = TypeOf(arg[t]) => s \in atStart[t].dead

(* C9: a Publish of an event whose type has no subscribed sink (none was   *)
(* ever subscribed, all were cancelled, or the event is nil) invokes       *)
(* nothing, fails with nothing and leaves the cell and its snapshot alone. *)
TheoremC9 ==
    /\ [](\A t \in Threads : (Publishing(t) /\ NoSubscriber(t)) =>
            (delivered[t] = <<>> /\ Finished(t) /\ err[t] = "nil"))
    /\ [][\A t \in Threads :
            /\ (pc[t] = "idle" /\ pc'[t] = "pub_send" /\ NoSubscriber(t)')
                  => (/\ Snap(subscriptions)' = Snap(subscriptions)
                      /\ UNCHANGED <<subscribeLock, subscriptions, sinks, cancels,
                                     calls, chans>>)
            /\ (pc[t] = "pub_send" /\ pc'[t] = "idle" /\ NoSubscriber(t))
                  => (/\ Snap(subscriptions)' = Snap(subscriptions)
                      /\ UNCHANGED <<subscribeLock, subscriptions, sinks, cancels,
                                     calls, chans>>)]_vars

WitnessC9 ==
    \E t \in Threads : \E s \in SinkIds :
        /\ Finished(t)
        /\ NoSubscriber(t)
        /\ cancels[s].eventType = TypeOf(arg[t])
        /\ TypeOf(arg[t]) \in DOMAIN Snap(loaded[t])

(* C10: Publish takes no lock and waits for no writer: while a Subscribe   *)
(* or Cancel holds the writers' lock, a Publish can start, loads the       *)
(* snapshot that is in the cell at that moment, and can take its next step *)
(* up to its return.                                                       *)
TheoremC10 ==
    /\ [](subscribeLock # 0 =>
            \A t \in Threads :
                /\ pc[t] = "idle" => \A e \in Events : ENABLED PublishCall(t, e)
                /\ Publishing(t) => ENABLED (PublishSend(t) \/ PublishReturn(t)))
    /\ [][\A t \in Threads :
            /\ (pc[t] = "idle" /\ pc'[t] = "pub_send")
                  => (/\ Snap(loaded[t])' = Snap(subscriptions)
                      /\ loaded'[t] = subscriptions'
                      /\ subscribeLock' = subscribeLock)
            /\ (pc[t] = "pub_send" /\ (pc'[t] # "pub_send" \/ idx'[t] # idx[t]))
                  => subscribeLock' = subscribeLock]_vars

WitnessC10 ==
    \E t, u \in Threads :
        /\ pc[u] = "sub_unlock"
        /\ subscribeLock = u
        /\ Finished(t)
        /\ sk[u] \in Invoked(t)

(* what the listener inspector is to answer for a shape *)
ShapeError(c) ==
    CASE c.kind = "nil" -> "ErrInvalidListener"
      [] c.kind = "func" ->
            IF c.numIn = 1 /\ c.numOut = 0 THEN "nil" ELSE "ErrInvalidFunction"
      [] c.kind = "chan" ->
            IF c.chanDir = "recv" THEN "ErrInvalidChannel" ELSE "nil"
      [] OTHER ->
            IF c.numMethod # 1 THEN "ErrInvalidListener"
            ELSE IF c.mNumIn - 1 = 1 /\ c.mNumOut = 0 THEN "nil"
            ELSE "ErrInvalidFunction"

Resolved(c) ==
    CASE c.kind = "func" -> c.in0
      [] c.kind = "chan" -> c.elem
      [] OTHER -> c.mIn1

RECURSIVE SumOver(_, _)
SumOver(f, S) ==
    IF S = {} THEN 0
    ELSE LET x == CHOOSE y \in S : TRUE IN f[x] + SumOver(f, S \ {x})

AllPublished == \A t \in Threads : pc[t] = "idle" /\ published[t] = PerPublisher

(* C6: with one sink subscribed before any Publish and never cancelled,    *)
(* NumPublishers concurrent publishers of PerPublisher events each invoke  *)
(* it NumPublishers * PerPublisher times in all: the count of invocations  *)
(* is always the count of Publish calls that have passed their send.       *)
TheoremC6 ==
    /\ calls = SumOver(published, Threads)
                 - Cardinality({t \in Threads : Publishing(t) /\ idx[t] = 1})
    /\ AllPublished => calls = NumPublishers * PerPublisher

WitnessC6 == AllPublished /\ calls = NumPublishers * PerPublisher

(* the Publish of p waits in a send to the full channel *)
BlockedInSink(p) ==
    /\ Publishing(p)
    /\ idx[p] <= Len(Range(p))
    /\ sinks[Range(p)[idx[p]]].kind = "sinkChan"
    /\ Len(chans[sinks[Range(p)[idx[p]]].listener]) = ChanCap

InWriter(t) == pc[t] \notin {"idle", "pub_send"}

(* C11: under fair scheduling of the writers every Subscribe and every     *)
(* Cancel call returns, whether or not a Publish is blocked for ever in a  *)
(* send to a full channel; a Publish never holds the writers' lock.        *)
TheoremC11 ==
    /\ \A t \in Workers : InWriter(t) ~> (pc[t] = "idle")
    /\ \A t \in Workers :
          ((\E p \in ChanPublishers : BlockedInSink(p)) /\ InWriter(t))
              ~> (pc[t] = "idle")
    /\ [](\A p \in ChanPublishers : subscribeLock # p)

WitnessC11 ==
    \E p \in ChanPublishers, t \in Workers :
        /\ BlockedInSink(p)
        /\ pc[t] = "can_unlock"
        /\ sk[t] = Range(p)[idx[p]]
        /\ Updated(Lookup(Snap(subscriptions), TypeOf(arg[p])), sk[t])
             = Lookup(Snap(subscriptions), TypeOf(arg[p]))

Panicked(t) == pc[t] = "pub_panic"

(* C12: a listener's panic leaves Publish at once: the sinks before the    *)
(* panicking one have been invoked, none after it is, the Publish holds no *)
(* lock and the cell and its snapshot are as they were, so that a later    *)
(* Publish still invokes every subscribed sink up to a panicking one.      *)
TheoremC12 ==
    /\ [](\A t \in Threads : (Publishing(t) \/ Panicked(t)) =>
            /\ \A i \in DOMAIN delivered[t] :
                  Panics(delivered[t][i].sink) => i = Len(delivered[t])
            /\ subscribeLock # t)
    /\ [](\A t \in Threads : Panicked(t) =>
            /\ Panics(Range(t)[idx[t]])
            /\ DeliveredSinks(t) = SubSeq(Range(t), 1, idx[t]))
    /\ [](\A t \in Threads : Finished(t) =>
            \A s \in StillLive(t) :
                cancels[s].eventType = TypeOf(arg[t]) => TimesAny(t, s) = 1)
    /\ [][\A t \in Threads :
            /\ (Publishing(t) /\ Panicked(t)')
                  => (/\ Snap(subscriptions)' = Snap(subscriptions)
                      /\ UNCHANGED <<subscribeLock, subscriptions, sinks, cancels,
                                     calls, chans>>)
            /\ (Panicked(t) /\ ~Panicked(t)')
                  => (/\ pc'[t] = "idle"
                      /\ Snap(subscriptions)' = Snap(subscriptions)
                      /\ UNCHANGED <<subscribeLock, subscriptions, sinks, cancels,
                                     calls, chans>>)]_vars

WitnessC12 ==
    \E t, u \in Threads :
        /\ Panicked(t)
        /\ idx[t] < Len(Range(t))
        /\ Finished(u)
        /\ delivered[u] # <<>>

SinksOf(seq) == {seq[i] : i \in DOMAIN seq}

(* the sinks in the cell's snapshot for the event type of sink s *)
Current(s) == SinksOf(Lookup(Snap(subscriptions), cancels[s].eventType))

(* C13: a Publish that started while a sink was subscribed invokes it,     *)
(* once, even if its Cancel is invoked and completes before the Publish    *)
(* reaches it; the store of a Cancel changes no Publish in flight and      *)
(* removes the sink from the cell's snapshot from then on.                 *)
TheoremC13 ==
    /\ [](\A t \in Threads : Finished(t) =>
            \A s \in atStart[t].live :
                cancels[s].eventType = TypeOf(arg[t]) => TimesAny(t, s) = 1)
    /\ [](\A s \in Handles : cancels[s].once = "done" => s \notin Current(s))
    /\ [][\A u \in Threads :
            (pc[u] = "can_store" /\ pc'[u] = "can_unlock") =>
                /\ sk[u] \notin SinksOf(Lookup(Snap(subscriptions)',
                                               cancels[sk[u]].eventType))
                /\ \A t \in Threads : Publishing(t) =>
                      /\ Publishing(t)'
                      /\ Range(t)' = Range(t)
                      /\ delivered'[t] = delivered[t]
                      /\ idx'[t] = idx[t]]_vars

WitnessC13 ==
    \E t \in Threads : \E s \in SinkIds :
        /\ Finished(t)
        /\ s \in atStart[t].live
        /\ cancels[s].once = "done"
        /\ TimesAny(t, s) = 1
        /\ s \notin Current(s)

(* the next sink of the Publish of t is a channel *)
AtChan(t) ==
    /\ Publishing(t)
    /\ idx[t] <= Len(Range(t))
    /\ sinks[Range(t)[idx[t]]].kind = "sinkChan"

(* C14: a Publish whose next sink is a channel with free capacity can send *)
(* at once, whether or not anything receives; one whose next sink is a     *)
(* full channel can neither send nor return, and stays where it is, with   *)
(* no later sink invoked, until a value has been received; a Publish that  *)
(* is not in a send to a full channel can always take its next step.       *)
TheoremC14 ==
    /\ [](\A t \in Threads :
            /\ (AtChan(t) /\ ~BlockedInSink(t)) => ENABLED PublishSend(t)
            /\ BlockedInSink(t) =>
                  (~ENABLED PublishSend(t) /\ ~ENABLED PublishReturn(t))
            /\ (Publishing(t) /\ ~BlockedInSink(t)) =>
                  ENABLED (PublishSend(t) \/ PublishReturn(t)))
    /\ [][\A t \in Threads : BlockedInSink(t) =>
            /\ pc'[t] = pc[t]
            /\ idx'[t] = idx[t]
            /\ delivered'[t] = delivered[t]
            /\ (calls' # calls => \E u \in Threads : u # t /\ idx'[u] # idx[u])]_vars
    /\ [](\A l \in ChanListeners : Len(chans[l]) <= ChanCap)

WitnessC14 ==
    \E t, u \in Threads :
        /\ BlockedInSink(t)
        /\ delivered[t] = <<>>
        /\ pc[u] = "idle"
        /\ published[u] = 1
        /\ calls = 1

(* how often the Publish of t has called listener l *)
ListenerCalls(t, l) ==
    Cardinality({i \in DOMAIN delivered[t] : sinks[delivered[t][i].sink].listener = l})

SinksFor(t, l) ==
    {s \in SinkIds : sinks[s].listener = l /\ cancels[s].eventType = TypeOf(arg[t])}

CellList(ty) == Lookup(Snap(subscriptions), ty)

(* C15: every Subscribe makes a sink of its own, also for a listener that  *)
(* is subscribed already: a Publish calls a listener once for each of its  *)
(* sinks that is subscribed, so twice when it was subscribed twice, and    *)
(* the Cancel of one of them takes exactly that sink off the list, leaving *)
(* one call for each later Publish.                                        *)
TheoremC15 ==
    /\ [](\A ty \in DOMAIN Snap(subscriptions) :
            Cardinality(SinksOf(CellList(ty))) = Len(CellList(ty)))
    /\ [](\A t \in Threads : Finished(t) =>
            \A l \in Listeners :
                /\ ListenerCalls(t, l) >= Cardinality(SinksFor(t, l) \cap StillLive(t))
                /\ ListenerCalls(t, l) <= Cardinality(SinksFor(t, l) \ atStart[t].dead))
    /\ [][\A t \in Threads :
            /\ (pc[t] = "sub_store" /\ pc'[t] = "sub_unlock") =>
                  /\ Len(sinks') = Len(sinks) + 1
                  /\ sk'[t] = Len(sinks')
                  /\ sinks'[sk'[t]].listener = arg[t]
                  /\ CellList(newSink(ShapeOf(arg[t])).eventType)'
                       = Append(CellList(newSink(ShapeOf(arg[t])).eventType), sk'[t])
            /\ (pc[t] = "can_store" /\ pc'[t] = "can_unlock") =>
                  /\ SinksOf(CellList(cancels[sk[t]].eventType)')
                       = SinksOf(CellList(cancels[sk[t]].eventType)) \ {sk[t]}
                  /\ Len(CellList(cancels[sk[t]].eventType)')
                       >= Len(CellList(cancels[sk[t]].eventType)) - 1]_vars

WitnessC15 ==
    \E t, u \in Threads : \E s, r \in SinkIds :
        /\ s # r
        /\ sinks[s].listener = sinks[r].listener
        /\ Finished(t) /\ ListenerCalls(t, sinks[s].listener) = 2
        /\ Finished(u) /\ ListenerCalls(u, sinks[s].listener) = 1
        /\ s \in atStart[u].dead
        /\ r \in StillLive(u)

(* the listener is a function of one input, a pointer to a type with      *)
(* several methods, and no output: a func of one *bytes.Buffer            *)
PointerFunc(c) ==
    /\ c.kind = "func"
    /\ c.numIn = 1
    /\ c.numOut = 0
    /\ c.in0 \in ManyMethodPointers

Storing(t) == pc[t] \in {"sub_store", "can_store"}

(* C17: a snapshot never changes once it is in the cell: whoever holds it, *)
(* a Publish or a writer, finds the same mapping and lists after every     *)
(* step of any goroutine; the cell's snapshot changes only by a store of   *)
(* another map; and a Publish ranges over exactly the list that the cell's *)
(* snapshot held for its event's type when it loaded.                      *)
TheoremC17 ==
    /\ [](\A t \in Threads : Finished(t) => DeliveredSinks(t) = Range(t))
    /\ [][/\ \A t \in Threads :
               /\ (Publishing(t) /\ Publishing(t)') =>
                     (Snap(loaded[t])' = Snap(loaded[t]) /\ Range(t)' = Range(t))
               /\ (Storing(t) /\ pc'[t] = pc[t]) => Snap(loaded[t])' = Snap(loaded[t])
               /\ (pc[t] = "idle" /\ Publishing(t)') =>
                     /\ Snap(loaded[t])' = Snap(subscriptions)
                     /\ Range(t)' = Lookup(Snap(subscriptions), TypeOf(arg'[t]))
          /\ (\A u \in Threads : ~(Storing(u) /\ pc'[u] # pc[u]))
                => Snap(subscriptions)' = Snap(subscriptions)]_vars

WitnessC17 ==
    \E t \in Threads :
        /\ Finished(t)
        /\ Len(Range(t)) = 2
        /\ DeliveredSinks(t) = Range(t)
        /\ TypeOf(arg[t]) \in DOMAIN Snap(subscriptions)
        /\ Snap(subscriptions)[TypeOf(arg[t])] = <<>>

AllReturned == \A t \in Threads : pc[t] = "idle"

(* the sinks whose Subscribe succeeded and whose Cancel was never invoked *)
Subscribed(ty) ==
    {s \in SinkIds : cancels[s].eventType = ty /\ cancels[s].once = "idle"}

(* C18: at most one writer is between its load and its store, and it holds *)
(* the writers' lock; once every Subscribe and Cancel call has returned    *)
(* the cell's snapshot lists, for every event type, exactly the sinks that *)
(* were subscribed and whose Cancel was not invoked.                       *)
TheoremC18 ==
    /\ Cardinality({t \in Threads : Storing(t)}) <= 1
    /\ \A t \in Threads : Storing(t) => subscribeLock = t
    /\ AllReturned =>
          /\ \A s \in SinkIds : cancels[s].once \in {"idle", "done"}
          /\ \A ty \in ConcreteTypes :
                /\ SinksOf(CellList(ty)) = Subscribed(ty)
                /\ Len(CellList(ty)) = Cardinality(Subscribed(ty))

WitnessC18 ==
    /\ AllReturned
    /\ \E s, r \in SinkIds :
          /\ cancels[s].once = "done"
          /\ cancels[r].once = "idle"
          /\ cancels[s].eventType = cancels[r].eventType
          /\ CellList(cancels[r].eventType) = <<r>>

(* the step is a call of add, of remove *)
AddCalled == regOp.op = "none" /\ regOp'.op = "add"

RemoveCalled == regOp.op = "none" /\ regOp'.op = "remove"

(* the receiver before the call, and the map returned *)
Before == RegVal(regOp'.recv)

After == RegValOf(regMaps', regLists', regOp'.result)

(* every map and list object there was is as it was *)
ObjectsKept ==
    /\ \A m \in DOMAIN regMaps : m \in DOMAIN regMaps' /\ regMaps'[m] = regMaps[m]
    /\ \A l \in DOMAIN regLists : l \in DOMAIN regLists' /\ regLists'[l] = regLists[l]

(* the map returned is a new object that shares no list with an old one *)
NewObject ==
    /\ regOp'.result \notin Receivers
    /\ regOp'.result \in DOMAIN regMaps'
    /\ \A k \in DOMAIN regMaps'[regOp'.result] :
          regMaps'[regOp'.result][k] \notin DOMAIN regLists

(* C19: add(eventType, sink) returns a new registry whose list for         *)
(* eventType is the receiver's list with sink appended at the end and      *)
(* whose list for every other type equals the receiver's; the receiver,    *)
(* its mapping and its lists, is as it was before the call.                *)
TheoremC19 ==
    [][AddCalled =>
         /\ NewObject
         /\ DOMAIN After = (DOMAIN Before) \cup {regOp'.eventType}
         /\ After[regOp'.eventType]
              = Lookup(Before, regOp'.eventType) \o <<regOp'.sink>>
         /\ \A k \in (DOMAIN Before) \ {regOp'.eventType} : After[k] = Before[k]
         /\ RegValOf(regMaps', regLists', regOp'.recv) = Before
         /\ ObjectsKept]_vars

WitnessC19 ==
    /\ regOp.op = "add"
    /\ regOp.recv # 0
    /\ regOp.eventType \in DOMAIN RegVal(regOp.recv)
    /\ Len(RegVal(regOp.recv)[regOp.eventType]) = 1
    /\ Len(RegVal(regOp.result)[regOp.eventType]) = 2
    /\ \E k \in DOMAIN RegVal(regOp.recv) :
          k # regOp.eventType /\ RegVal(regOp.recv)[k] # <<>>

(* the pair is in the receiver *)
Present ==
    /\ regOp'.eventType \in DOMAIN Before
    /\ regOp'.sink \in SinksOfList(Before[regOp'.eventType])

(* q is p without x, the rest in p's order *)
Without(p, q, x) ==
    \E keep \in SUBSET (DOMAIN p) :
        /\ keep = {i \in DOMAIN p : p[i] # x}
        /\ Len(q) = Cardinality(keep)
        /\ \A i \in keep : q[Cardinality({j \in keep : j <= i})] = p[i]

InListener(t) == pc[t] = "pub_listener"

(* the next step of the call that the listener has made *)
InnerStep ==
    \/ SubscribeLock(Inner) \/ SubscribeStore(Inner) \/ SubscribeReturn(Inner)
    \/ CancelDone(Inner) \/ CancelLock(Inner) \/ CancelStore(Inner)
    \/ CancelReturn(Inner)

(* C21: a Subscribe or a Cancel that a listener calls while Publish is     *)
(* calling it can always take its next step, and the listener can return   *)
(* when it has: the Publish holds no lock. The Publish goes on to send to  *)
(* exactly the list it loaded: the sinks subscribed when it started, also  *)
(* one cancelled during the delivery, and none subscribed during it.       *)
TheoremC21 ==
    /\ [](InWriter(Inner) =>
            /\ InListener(Outer)
            /\ subscribeLock # Outer
            /\ ENABLED InnerStep)
    /\ []((InListener(Outer) /\ pc[Inner] = "idle") =>
            ENABLED ListenerReturn(Outer, Inner))
    /\ []((Publishing(Outer) \/ InListener(Outer)) =>
            /\ subscribeLock # Outer
            /\ DeliveredSinks(Outer) = SubSeq(Range(Outer), 1, idx[Outer] - 1)
            /\ SinksOf(Range(Outer))
                 = {s \in atStart[Outer].live :
                       cancels[s].eventType = TypeOf(arg[Outer])})
    /\ [](Finished(Outer) => DeliveredSinks(Outer) = Range(Outer))
    /\ [][(InListener(Outer) /\ InListener(Outer)') =>
            /\ Range(Outer)' = Range(Outer)
            /\ idx'[Outer] = idx[Outer]
            /\ delivered'[Outer] = delivered[Outer]]_vars

WitnessC21 ==
    \E s, r \in SinkIds :
        /\ Finished(Outer)
        /\ Range(Outer) = <<s, r>>
        /\ Reenters(s)
        /\ DeliveredSinks(Outer) = <<s, r>>
        /\ cancels[r].once = "done"
        /\ r \in atStart[Outer].live
        /\ r \notin Current(r)

InCancel(t) == InCancelBody(t) \/ pc[t] \in {"can_done", "can_wait"}

(* the threads that are running the function of the Cancel handle of s *)
Runners(s) == {t \in Threads : InCancelBody(t) /\ sk[t] = s}

(* C22: of the threads that call one Cancel handle at the same time, one   *)
(* runs the remove-and-store, once; the others wait while it runs, and no  *)
(* call of the handle returns while the sink is in the current snapshot.   *)
TheoremC22 ==
    /\ [](\A s \in SinkIds :
            /\ cancels[s].once = "idle" => (Runners(s) = {} /\ s \in Current(s))
            /\ cancels[s].once = "running" => Cardinality(Runners(s)) = 1
            /\ cancels[s].once = "done" => (Runners(s) = {} /\ s \notin Current(s)))
    /\ [](\A t \in Threads :
            (pc[t] = "can_wait" /\ cancels[sk[t]].once = "running")
                => ~ENABLED CancelDone(t))
    /\ [][\A s \in SinkIds :
            /\ cancels[s].once = "running" => cancels'[s].once # "idle"
            /\ cancels[s].once = "done" => cancels'[s].once = "done"
            /\ (s \notin Current(s) /\ s \in Current(s)') => cancels[s].once = "idle"
            /\ (s \in Current(s) /\ s \notin Current(s)') =>
                  \E t \in Runners(s) :
                     pc[t] = "can_store" /\ pc'[t] = "can_unlock"]_vars
    /\ [][\A t \in Threads : \A s \in SinkIds :
            (InCancel(t) /\ sk[t] = s /\ pc'[t] = "idle") => s \notin Current(s)']_vars

WitnessC22 ==
    \E t, u \in Threads :
        /\ t # u
        /\ pc[t] = "can_wait"
        /\ pc[u] = "can_unlock"
        /\ sk[u] = sk[t]
        /\ sk[t] \notin Current(sk[t])

(* the next sink of the Publish of t is s, and the Cancel of s has returned *)
StaleNext(t, s) ==
    /\ Publishing(t)
    /\ idx[t] <= Len(Range(t))
    /\ Range(t)[idx[t]] = s
    /\ cancels[s].once = "done"

(* C23: a Publish whose next sink has been cancelled, the Cancel having    *)
(* returned, loaded its list before that Cancel stored; the sink is not in *)
(* the current snapshot, and the Publish still sends to it: the send is    *)
(* enabled (unless to a full channel) and, when taken, invokes the sink,   *)
(* a channel sink receiving the value.                                     *)
TheoremC23 ==
    /\ [](\A t \in Threads : \A s \in SinkIds : StaleNext(t, s) =>
            /\ s \notin atStart[t].dead
            /\ s \notin Current(s)
            /\ ~BlockedInSink(t) => ENABLED PublishSend(t))
    /\ [][\A t \in Threads : \A s \in SinkIds :
            (StaleNext(t, s) /\ idx'[t] # idx[t]) =>
               /\ delivered'[t] = Append(delivered[t], [sink |-> s, val |-> arg[t]])
               /\ sinks[s].kind = "sinkChan" =>
                     chans'[sinks[s].listener]
                        = Append(chans[sinks[s].listener], arg[t])]_vars

WitnessC23 ==
    \E t \in Threads : \E s \in SinkIds :
        /\ StaleNext(t, s)
        /\ AtChan(t)
        /\ ~BlockedInSink(t)
        /\ \A u \in Threads : u # t => pc[u] = "idle"
        /\ ENABLED PublishSend(t)

NoDuplicate(seq) == \A i, j \in DOMAIN seq : seq[i] = seq[j] => i = j

(* the event type that Subscribe resolved for sink s *)
ResolvedType(s) == newSink(ShapeOf(sinks[s].listener)).eventType

(* C24: in the cell's snapshot every sink is in at most one list, at most  *)
(* once, and that list is the one of the event type resolved when it was   *)
(* subscribed. So the Cancel that runs finds its sink in the list it       *)
(* loaded for that type: remove does not return its receiver, and the      *)
(* store leaves that list one sink shorter and the other lists as they     *)
(* were.                                                                   *)
TheoremC24 ==
    /\ [](/\ DOMAIN Snap(subscriptions) \subseteq ConcreteTypes
          /\ \A ty \in ConcreteTypes :
                /\ NoDuplicate(CellList(ty))
                /\ \A s \in SinksOf(CellList(ty)) :
                      /\ s \in SinkIds
                      /\ ResolvedType(s) = ty
                      /\ cancels[s].eventType = ty)
    /\ [](\A t \in Threads : pc[t] = "can_store" =>
            /\ Snap(loaded[t]) = Snap(subscriptions)
            /\ sk[t] \in Current(sk[t])
            /\ ~remove(Snap(loaded[t]), cancels[sk[t]].eventType, sk[t]).same)
    /\ [][\A t \in Threads : \A s \in SinkIds : \A ty \in ConcreteTypes :
            (/\ pc[t] = "can_store"
             /\ pc'[t] = "can_unlock"
             /\ sk[t] = s
             /\ cancels[s].eventType = ty) =>
               /\ Len(CellList(ty)') = Len(CellList(ty)) - 1
               /\ SinksOf(CellList(ty)') = SinksOf(CellList(ty)) \ {s}
               /\ \A k \in ConcreteTypes \ {ty} : CellList(k)' = CellList(k)]_vars

WitnessC24 ==
    \E t \in Threads : \E s, r \in SinkIds :
        /\ pc[t] = "can_unlock"
        /\ sk[t] = s
        /\ s # r
        /\ cancels[s].eventType = "string"
        /\ CellList("string") = <<r>>
        /\ CellList("TestEvent") = <<>>

=============================================================================
